---- MODULE Spec2Model ----
(***************************************************************************)
(* CDCL SAT solver of src/code.cpp: the assignment trail, unit             *)
(* propagation, conflict analysis, backtracking and the solve driver.      *)
(***************************************************************************)
EXTENDS Integers, Sequences, FiniteSets, TLC

VARIABLES
    clauses,      \* formula.clauses: the clause list, in order
    variables,    \* formula.variables: the set computed by the constructor
    assignments,  \* Assignments::assignments: variable -> Assignment
    dl,           \* Assignments::dl: the current decision level
    pc,           \* position of cdcl_solve
    reason,       \* local `reason` of cdcl_solve
    clause,       \* local `clause` of cdcl_solve (optional<Clause>)
    b,            \* local `b` of cdcl_solve: the backtrack level
    original,     \* history: formula.clauses when cdcl_solve was called
    pre,          \* history: the trail passed to the last backtrack call
    origin,       \* history: what the pending or last propagation follows
    before        \* history: the trail when the last decision was made

vars == <<clauses, variables, assignments, dl, pc, reason, clause, b,
          original, pre, origin, before>>

----------------------------------------------------------------------------
(* Bounds of the model *)

NumVars == 2
MaxInitClauses == 2
MaxLearned == 2
MaxClauseLen == 2
MaxLevel == 2

Vars == 1..NumVars

----------------------------------------------------------------------------
(* Literal, Clause, optional<> *)

Literal(var, neg) == [variable |-> var, negation |-> neg]

\* std::optional: nullopt is the empty sequence, a value is a one-element one
nullopt == <<>>

Some(x) == <<x>>

has_value(o) == Len(o) = 1

opt_value(o) == o[1]

Lits == {Literal(v, n) : v \in Vars, n \in BOOLEAN}

----------------------------------------------------------------------------
(* Formula *)

RECURSIVE ClauseVars(_)
ClauseVars(c) ==
    IF c = <<>> THEN {} ELSE {Head(c).variable} \cup ClauseVars(Tail(c))

\* Formula::Formula: the variables of all literals of all clauses
RECURSIVE FormulaVariables(_)
FormulaVariables(cls) ==
    IF cls = <<>> THEN {}
    ELSE ClauseVars(Head(cls)) \cup FormulaVariables(Tail(cls))

----------------------------------------------------------------------------
(* Assignments *)

Assignment(val, ant, decision_level) ==
    [value |-> val, antecedent |-> ant, dl |-> decision_level]

\* Assignments::value: an unassigned variable makes every literal false
value(A, literal) ==
    IF literal.variable \notin DOMAIN A THEN FALSE
    ELSE IF literal.negation THEN ~A[literal.variable].value
         ELSE A[literal.variable].value

assign_without_level(A, level, variable, val, antecedent) ==
    [v \in (DOMAIN A) \cup {variable} |->
        IF v = variable THEN Assignment(val, antecedent, 0) ELSE A[v]]

\* Assignments::assign: operator[] inserts or overwrites
assign(A, level, variable, val, antecedent) ==
    [v \in (DOMAIN A) \cup {variable} |->
        IF v = variable THEN Assignment(val, antecedent, level) ELSE A[v]]

\* Assignments::unassign
unassign(A, variable) == [v \in (DOMAIN A) \ {variable} |-> A[v]]

\* Assignments::satisfy
satisfy(A, cls) ==
    \A i \in 1..Len(cls) : \E j \in 1..Len(cls[i]) : value(A, cls[i][j])

EmptyTrail == [v \in {} |-> Assignment(FALSE, nullopt, 0)]

all_variables_assigned_early(fvars, A) ==
    Cardinality(fvars) <= Cardinality(DOMAIN A) + 1

all_variables_assigned(fvars, A) ==
    Cardinality(fvars) = Cardinality(DOMAIN A)

----------------------------------------------------------------------------
(* pick_branching_variable: the unassigned variables it draws from *)

unassigned_vars_unfiltered(fvars, A) == fvars

unassigned_vars(fvars, A) == {v \in fvars : v \notin DOMAIN A}

----------------------------------------------------------------------------
(* backtrack *)

backtrack_inclusive(A, level) ==
    [v \in {w \in DOMAIN A : A[w].dl < level} |-> A[v]]

backtrack_keep_forced(A, level) ==
    [v \in {w \in DOMAIN A : ~(A[w].dl > level)
                                \/ has_value(A[w].antecedent)} |-> A[v]]

\* removes (unassign) every entry whose level exceeds `level`
backtrack(A, level) ==
    [v \in {w \in DOMAIN A : ~(A[w].dl > level)} |-> A[v]]

----------------------------------------------------------------------------
(* unit_propagation *)

\* size_t arithmetic: TLC integers are 32 bits wide, so the 64-bit modulus of
\* size_t is represented by the largest power of two TLC can hold.  Only the
\* wrap of 0 - 1 to a value above every false_count matters.
SizeModulus == 2^30

SizeT(x) == x % SizeModulus

RECURSIVE scan_literals_last_seen(_, _, _, _, _)
scan_literals_last_seen(A, lits, j, false_count, unassigned_literal) ==
    IF j > Len(lits)
    THEN [false_count |-> false_count,
          unassigned_literal |-> unassigned_literal,
          clause_satisfied |-> FALSE]
    ELSE IF lits[j].variable \notin DOMAIN A
    THEN scan_literals_last_seen(A, lits, j + 1, false_count, Some(lits[j]))
    ELSE IF value(A, lits[j])
    THEN [false_count |-> false_count,
          unassigned_literal |-> unassigned_literal,
          clause_satisfied |-> TRUE]
    ELSE scan_literals_last_seen(A, lits, j + 1, false_count + 1,
                                 Some(lits[j]))

\* the inner for loop over clause.literals, with its break
RECURSIVE scan_literals(_, _, _, _, _)
scan_literals(A, lits, j, false_count, unassigned_literal) ==
    IF j > Len(lits)
    THEN [false_count |-> false_count,
          unassigned_literal |-> unassigned_literal,
          clause_satisfied |-> FALSE]
    ELSE IF lits[j].variable \notin DOMAIN A
    THEN scan_literals(A, lits, j + 1, false_count, Some(lits[j]))
    ELSE IF value(A, lits[j])
    THEN [false_count |-> false_count,
          unassigned_literal |-> unassigned_literal,
          clause_satisfied |-> TRUE]
    ELSE scan_literals(A, lits, j + 1, false_count + 1, unassigned_literal)

\* false_count == clause.literals.size() - 1 && unassigned_literal.has_value()
is_unit(false_count, size, unassigned_literal) ==
    SizeT(false_count) = SizeT(size - 1) /\ has_value(unassigned_literal)

forced_value_flipped(literal) == literal.negation

\* assign(unassigned_literal->variable, !unassigned_literal->negation, clause)
forced_value(literal) == ~literal.negation

is_conflict_never(false_count, size) == false_count > size

is_conflict_nonempty(false_count, size) ==
    size > 0 /\ SizeT(false_count) = SizeT(size)

\* false_count == clause.literals.size()
is_conflict(false_count, size) == SizeT(false_count) = SizeT(size)

\* the for loop over formula.clauses of one pass of the while loop;
\* assign_calls counts the calls of assignments.assign
RECURSIVE scan_clauses(_, _, _, _, _)
scan_clauses(cls, i, A, level, finish) ==
    IF i > Len(cls)
    THEN [returned |-> FALSE, finish |-> finish, clause |-> nullopt,
          assignments |-> A, assign_calls |-> 0]
    ELSE LET c == cls[i]
             s == scan_literals(A, c, 1, 0, nullopt)
             u == opt_value(s.unassigned_literal)
         IN  IF s.clause_satisfied
             THEN scan_clauses(cls, i + 1, A, level, finish)
             ELSE IF is_unit(s.false_count, Len(c), s.unassigned_literal)
             THEN LET r == scan_clauses(cls, i + 1,
                          assign(A, level, u.variable, forced_value(u), Some(c)),
                          level, FALSE)
                  IN  [r EXCEPT !.assign_calls = @ + 1]
             ELSE IF is_conflict(s.false_count, Len(c))
             THEN [returned |-> TRUE, finish |-> finish, clause |-> Some(c),
                   assignments |-> A, assign_calls |-> 0]
             ELSE scan_clauses(cls, i + 1, A, level, finish)

unit_propagation_one_pass(cls, A, level) ==
    LET r == scan_clauses(cls, 1, A, level, TRUE)
    IN  IF r.returned
        THEN [reason |-> "conflict", clause |-> r.clause,
              assignments |-> r.assignments, assign_calls |-> r.assign_calls]
        ELSE [reason |-> "unresolved", clause |-> nullopt,
              assignments |-> r.assignments, assign_calls |-> r.assign_calls]

\* while (!finish): passes until one makes no assignment or finds a conflict
RECURSIVE unit_propagation(_, _, _)
unit_propagation(cls, A, level) ==
    LET r == scan_clauses(cls, 1, A, level, TRUE)
    IN  IF r.returned
        THEN [reason |-> "conflict", clause |-> r.clause,
              assignments |-> r.assignments, assign_calls |-> r.assign_calls]
        ELSE IF r.finish
        THEN [reason |-> "unresolved", clause |-> nullopt,
              assignments |-> r.assignments, assign_calls |-> r.assign_calls]
        ELSE LET n == unit_propagation(cls, r.assignments, level)
             IN  [n EXCEPT !.assign_calls = @ + r.assign_calls]

----------------------------------------------------------------------------
(* conflict_analysis *)

conflict_analysis_shorten(c, level) ==
    IF level = 0 THEN [b |-> -1, learned_clause |-> c]
    ELSE [b |-> level - 1,
          learned_clause |-> IF c = <<>> THEN c ELSE Tail(c)]

conflict_analysis_same_level(c, level) ==
    IF level = 0 THEN [b |-> -1, learned_clause |-> c]
    ELSE [b |-> level, learned_clause |-> c]

conflict_analysis_to_root(c, level) ==
    IF level = 0 THEN [b |-> -1, learned_clause |-> c]
    ELSE [b |-> 0, learned_clause |-> c]

conflict_analysis_skip(c, level) ==
    IF level = 0 THEN [b |-> -1, learned_clause |-> c]
    ELSE [b |-> level - 2, learned_clause |-> c]

conflict_analysis(c, level) ==
    IF level = 0 THEN [b |-> -1, learned_clause |-> c]
    ELSE [b |-> level - 1, learned_clause |-> c]

push_front(cls, c) == <<c>> \o cls

\* formula.clauses.push_back
push_back(cls, c) == Append(cls, c)

----------------------------------------------------------------------------
(* Input formulas: clause lists the parser can deliver *)

LitCode(l) == 2 * l.variable - (IF l.negation THEN 0 ELSE 1)

RECURSIVE ClauseKey(_)
ClauseKey(c) ==
    IF c = <<>> THEN 0
    ELSE ClauseKey(SubSeq(c, 1, Len(c) - 1)) * (2 * NumVars + 1)
         + LitCode(c[Len(c)])

\* clauses over distinct variables, in increasing variable order
RECURSIVE ProperClauses(_)
ProperClauses(n) ==
    IF n = 0 THEN {<<>>}
    ELSE ProperClauses(n - 1)
         \cup {Append(c, l) : c \in {d \in ProperClauses(n - 1) :
                                        Len(d) < MaxClauseLen},
                              l \in {k \in Lits : k.variable = n}}

\* clauses that repeat a variable: (1 1), (-1 -1), (1 -1)
RepeatClauses ==
    {<<Literal(1, FALSE), Literal(1, FALSE)>>,
     <<Literal(1, TRUE), Literal(1, TRUE)>>,
     <<Literal(1, FALSE), Literal(1, TRUE)>>}

ClauseUniverse == ProperClauses(NumVars) \cup RepeatClauses

\* clause lists of at most k distinct clauses, in increasing key order
RECURSIVE Formulas(_)
Formulas(k) ==
    IF k = 0 THEN {<<>>}
    ELSE LET shorter == Formulas(k - 1)
         IN  shorter \cup UNION {
                 {Append(f, c) : c \in {d \in ClauseUniverse :
                      Len(f) = 0 \/ ClauseKey(f[Len(f)]) < ClauseKey(d)}} :
                 f \in {g \in shorter : Len(g) = k - 1}}

InputFormulas == Formulas(MaxInitClauses)

----------------------------------------------------------------------------
(* cdcl_solve *)

Init ==
    /\ clauses \in InputFormulas
    /\ variables = FormulaVariables(clauses)
    /\ assignments = EmptyTrail
    /\ dl = 0
    /\ pc = "start"
    /\ reason = ""
    /\ clause = nullopt
    /\ b = 0
    /\ original = clauses
    /\ pre = EmptyTrail
    /\ origin = "initial"
    /\ before = EmptyTrail

\* auto [reason, clause] = unit_propagation(formula, assignments);
InitialPropagation ==
    /\ pc = "start"
    /\ LET r == unit_propagation(clauses, assignments, dl)
       IN  /\ reason' = r.reason
           /\ clause' = r.clause
           /\ assignments' = r.assignments
    /\ pc' = "initial_check"
    /\ UNCHANGED <<clauses, variables, dl, b, original, pre, origin, before>>

InitialCheck_continue ==
    /\ pc = "initial_check"
    /\ pc' = "loop"
    /\ UNCHANGED <<clauses, variables, assignments, dl, reason, clause, b,
                   original, pre, origin, before>>

\* if (reason == "conflict") return nullopt;
InitialCheck ==
    /\ pc = "initial_check"
    /\ pc' = IF reason = "conflict" THEN "unsat" ELSE "loop"
    /\ UNCHANGED <<clauses, variables, assignments, dl, reason, clause, b,
                   original, pre, origin, before>>

\* while (!all_variables_assigned(...)) fails: return assignments;
ReturnSat ==
    /\ pc = "loop"
    /\ all_variables_assigned(variables, assignments)
    /\ pc' = "sat"
    /\ UNCHANGED <<clauses, variables, assignments, dl, reason, clause, b,
                   original, pre, origin, before>>

\* pick_branching_variable; assignments.dl++; assignments.assign(var, val, nullopt)
Decide ==
    /\ pc = "loop"
    /\ ~all_variables_assigned(variables, assignments)
    /\ \E var \in unassigned_vars(variables, assignments), val \in BOOLEAN :
          /\ dl' = dl + 1
          /\ assignments' = assign(assignments, dl + 1, var, val, nullopt)
    /\ pc' = "propagate"
    /\ origin' = "decide"
    /\ before' = assignments
    /\ UNCHANGED <<clauses, variables, reason, clause, b, original, pre>>

\* tie(reason, clause) = unit_propagation(formula, assignments);
Propagate ==
    /\ pc = "propagate"
    /\ LET r == unit_propagation(clauses, assignments, dl)
       IN  /\ reason' = r.reason
           /\ clause' = r.clause
           /\ assignments' = r.assignments
    /\ pc' = "checked"
    /\ UNCHANGED <<clauses, variables, dl, b, original, pre, origin, before>>

\* if (reason != "conflict") break;
Break ==
    /\ pc = "checked"
    /\ reason # "conflict"
    /\ pc' = "loop"
    /\ UNCHANGED <<clauses, variables, assignments, dl, reason, clause, b,
                   original, pre, origin, before>>

\* auto [b, learned_clause] = conflict_analysis(clause.value(), assignments);
\* if (b < 0) return nullopt;  formula.clauses.push_back(learned_clause);
Analyze ==
    /\ pc = "checked"
    /\ reason = "conflict"
    /\ Len(clauses) < Len(original) + MaxLearned
    /\ LET r == conflict_analysis(opt_value(clause), dl)
       IN  /\ b' = r.b
           /\ IF r.b < 0
              THEN /\ pc' = "unsat"
                   /\ UNCHANGED <<clauses, pre>>
              ELSE /\ clauses' = push_back(clauses, r.learned_clause)
                   /\ pre' = assignments
                   /\ pc' = "backtrack"
    /\ UNCHANGED <<variables, assignments, dl, reason, clause, original,
                   origin, before>>

\* backtrack(assignments, b);
Backtrack ==
    /\ pc = "backtrack"
    /\ assignments' = backtrack(assignments, b)
    /\ pc' = "set_dl"
    /\ UNCHANGED <<clauses, variables, dl, reason, clause, b, original, pre,
                   origin, before>>

\* assignments.dl = b;
SetLevel ==
    /\ pc = "set_dl"
    /\ dl' = b
    /\ pc' = "propagate"
    /\ origin' = "backtrack"
    /\ UNCHANGED <<clauses, variables, assignments, reason, clause, b,
                   original, pre, before>>

Next ==
    \/ InitialPropagation
    \/ InitialCheck
    \/ ReturnSat
    \/ Decide
    \/ Propagate
    \/ Break
    \/ Analyze
    \/ Backtrack
    \/ SetLevel

Spec == Init /\ [][Next]_vars

----------------------------------------------------------------------------
(* The driver with a finite clause list, for the termination properties.   *)
(* unit_propagation scans two adjacent equal clauses alike: the second is  *)
(* satisfied when the first was satisfied or unit, and is left alone when  *)
(* the first was.  Once MaxLearned clauses have been appended, a learned   *)
(* clause equal to the last clause is therefore not stored again, and any  *)
(* other learned clause ends the run at pc = "bound".                      *)

AnalyzeBounded ==
    /\ pc = "checked"
    /\ reason = "conflict"
    /\ LET r == conflict_analysis(opt_value(clause), dl)
       IN  /\ b' = r.b
           /\ IF r.b < 0
              THEN /\ pc' = "unsat"
                   /\ UNCHANGED <<clauses, pre>>
              ELSE IF Len(clauses) < Len(original) + MaxLearned
              THEN /\ clauses' = push_back(clauses, r.learned_clause)
                   /\ pre' = assignments
                   /\ pc' = "backtrack"
              ELSE IF r.learned_clause = clauses[Len(clauses)]
              THEN /\ clauses' = clauses
                   /\ pre' = assignments
                   /\ pc' = "backtrack"
              ELSE /\ pc' = "bound"
                   /\ UNCHANGED <<clauses, pre>>
    /\ UNCHANGED <<variables, assignments, dl, reason, clause, original,
                   origin, before>>

LiveNext ==
    \/ InitialPropagation
    \/ InitialCheck
    \/ ReturnSat
    \/ Decide
    \/ Propagate
    \/ Break
    \/ AnalyzeBounded
    \/ Backtrack
    \/ SetLevel

\* cdcl_solve is sequential code: it always takes its next step
LiveSpec == Init /\ [][LiveNext]_vars /\ WF_vars(LiveNext)

----------------------------------------------------------------------------
(* backtrack on an arbitrary trail and level *)

\* the formula of the single clause (1), so that entries can carry an antecedent
BtFormulas == {<< <<Literal(1, FALSE)>> >>}

BtAntecedents(cls) == {nullopt} \cup {Some(cls[i]) : i \in 1..Len(cls)}

BtTrails(cls) ==
    UNION {[D -> [value : BOOLEAN, antecedent : BtAntecedents(cls),
                  dl : 0..MaxLevel]] : D \in SUBSET Vars}

BtInit ==
    /\ clauses \in BtFormulas
    /\ variables = FormulaVariables(clauses)
    /\ assignments \in BtTrails(clauses)
    /\ dl \in 0..MaxLevel
    /\ b \in -1..MaxLevel
    /\ pc = "backtrack"
    /\ reason = "conflict"
    /\ clause = nullopt
    /\ original = clauses
    /\ pre = assignments
    /\ origin = "decide"
    /\ before = EmptyTrail

BtNext == Backtrack

BtSpec == BtInit /\ [][BtNext]_vars

----------------------------------------------------------------------------
(* the conflict step of cdcl_solve from an arbitrary trail and level *)

ConflictInit ==
    /\ clauses \in BtFormulas
    /\ variables = FormulaVariables(clauses)
    /\ assignments \in BtTrails(clauses)
    /\ dl \in 0..MaxLevel
    /\ b = 0
    /\ pc = "checked"
    /\ reason = "conflict"
    /\ clause = Some(clauses[1])
    /\ original = clauses
    /\ pre = EmptyTrail
    /\ origin = "decide"
    /\ before = EmptyTrail

ConflictNext ==
    \/ Analyze
    \/ Backtrack
    \/ SetLevel
    \/ Propagate

ConflictSpec == ConflictInit /\ [][ConflictNext]_vars

----------------------------------------------------------------------------
(* Propositional semantics, independent of the solver *)

Models == [Vars -> BOOLEAN]

Holds(m, l) == IF l.negation THEN ~m[l.variable] ELSE m[l.variable]

ModelSatisfies(m, cls) ==
    \A i \in 1..Len(cls) : \E j \in 1..Len(cls[i]) : Holds(m, cls[i][j])

Satisfiable(cls) == \E m \in Models : ModelSatisfies(m, cls)

Implied(cls, c) ==
    \A m \in Models :
        ModelSatisfies(m, cls) => \E j \in 1..Len(c) : Holds(m, c[j])

IsPrefix(s, t) == Len(s) <= Len(t) /\ SubSeq(t, 1, Len(s)) = s

\* positions of a clause under a trail
UnassignedAt(A, c) == {j \in 1..Len(c) : c[j].variable \notin DOMAIN A}

TrueUnder(A, c) ==
    \E j \in 1..Len(c) : c[j].variable \in DOMAIN A /\ value(A, c[j])

AllFalse(A, c) ==
    \A j \in 1..Len(c) : c[j].variable \in DOMAIN A /\ ~value(A, c[j])

Learned == {i \in 1..Len(clauses) : i > Len(original)}

----------------------------------------------------------------------------
(* Properties *)

\* C1 (soundness): when cdcl_solve returns Sat, every clause of the original
\* clause list has a literal that is true under the returned trail.
C1_Soundness ==
    pc = "sat" =>
        \A i \in 1..Len(original) :
            \E j \in 1..Len(original[i]) : value(assignments, original[i][j])

C1_Witness ==
    /\ pc = "sat"
    /\ Len(original) >= 2
    /\ Len(clauses) > Len(original)
    /\ dl >= 1

\* C2 (Unsat is a proof): cdcl_solve returns Unsat only if no assignment of
\* the variables satisfies all original clauses.
C2_UnsatIsProof == pc = "unsat" => ~Satisfiable(original)

C2_Witness ==
    /\ pc = "unsat"
    /\ Len(original) >= 2
    /\ \A i \in 1..Len(original) : Len(original[i]) >= 1
    /\ \E v \in DOMAIN assignments : has_value(assignments[v].antecedent)

\* C3 (completeness on unsatisfiable input): on an unsatisfiable formula
\* every run that stays within the clause bound ends with Unsat.
C3_UnsatTerminates ==
    (~Satisfiable(original)) => <>(pc = "unsat" \/ pc = "bound")

\* C4 (termination on satisfiable input): on a satisfiable formula every
\* run that stays within the clause bound ends with Sat, whatever the
\* branching choices are.
C4_SatTerminates ==
    Satisfiable(original) => <>(pc = "sat" \/ pc = "bound")

\* C5 (totality on Sat): on Sat the domain of the trail is the variable set
\* of the formula, and the empty formula gives Sat with the empty trail and
\* no decision.
C5_Totality ==
    pc = "sat" =>
        /\ DOMAIN assignments = FormulaVariables(original)
        /\ variables = FormulaVariables(original)
        /\ (original = <<>> => assignments = EmptyTrail /\ dl = 0)

C5_Witness ==
    /\ pc = "sat"
    /\ Cardinality(DOMAIN assignments) = NumVars
    /\ \E v \in DOMAIN assignments : ~has_value(assignments[v].antecedent)
    /\ \E v \in DOMAIN assignments : has_value(assignments[v].antecedent)

\* C6 (backtracking correctness): backtrack(trail, b) keeps exactly the
\* entries of level <= b, each unchanged, and leaves the decision-level
\* counter and the formula alone.
C6_Backtrack ==
    [][pc = "backtrack" =>
        /\ DOMAIN assignments' =
               {v \in DOMAIN assignments : assignments[v].dl <= b}
        /\ \A v \in DOMAIN assignments' : assignments'[v] = assignments[v]
        /\ \A v \in DOMAIN assignments' : assignments'[v].dl <= b
        /\ dl' = dl
        /\ clauses' = clauses
        /\ variables' = variables]_vars

C6_Witness ==
    /\ pc = "set_dl"
    /\ \E v \in DOMAIN pre : v \notin DOMAIN assignments
    /\ \E v \in DOMAIN assignments :
           has_value(assignments[v].antecedent) /\ assignments[v].dl = b
    /\ dl > b

\* C7 (monotonic clause database): every step keeps the clause list as a
\* prefix of the next one, the list at solve start stays a prefix, and the
\* variable set never changes.
C7_Monotonic ==
    [][/\ IsPrefix(clauses, clauses')
       /\ IsPrefix(original, clauses')
       /\ variables' = variables]_vars

C7_Witness ==
    /\ Len(original) >= 2
    /\ Len(clauses) >= Len(original) + 2
    /\ clauses[Len(clauses)] # clauses[Len(clauses) - 1]

\* C9 (exhaustive propagation): when unit_propagation returns unresolved no
\* clause is all false and no unsatisfied clause has exactly one unassigned
\* literal position; when it returns a conflict the clause is one of the
\* formula and all its literals are assigned and false.
C9_Propagation ==
    pc \in {"initial_check", "checked"} =>
        /\ reason \in {"unresolved", "conflict"}
        /\ reason = "unresolved" =>
               \A i \in 1..Len(clauses) :
                   /\ ~AllFalse(assignments, clauses[i])
                   /\ ~(/\ ~TrueUnder(assignments, clauses[i])
                        /\ Cardinality(UnassignedAt(assignments, clauses[i])) = 1)
        /\ reason = "conflict" =>
               /\ has_value(clause)
               /\ \E i \in 1..Len(clauses) : clauses[i] = opt_value(clause)
               /\ AllFalse(assignments, opt_value(clause))

C9_Witness ==
    /\ pc = "checked"
    /\ reason = "unresolved"
    /\ Cardinality({v \in DOMAIN assignments :
           has_value(assignments[v].antecedent) /\ assignments[v].dl = dl}) >= 1
    /\ dl >= 1

\* C10 (learned-clause validity): every appended clause is implied by the
\* original clauses and mentions only their variables, and is all false
\* under the trail when it is appended, before backtracking.
C10_Learned ==
    /\ \A i \in Learned :
           /\ Implied(original, clauses[i])
           /\ ClauseVars(clauses[i]) \subseteq FormulaVariables(original)
    /\ pc = "backtrack" =>
           /\ Learned # {}
           /\ AllFalse(assignments, clauses[Len(clauses)])

C10_Witness ==
    /\ pc = "backtrack"
    /\ Len(clauses[Len(clauses)]) >= 2
    /\ \E v \in DOMAIN assignments : has_value(assignments[v].antecedent)

\* C11 (learning prevents repeating a failure): after a conflict has been
\* analysed and its clause appended, no conflict is reached again under the
\* trail of that analysed conflict (same values, levels and decision).
C11_NoRepeatedConflict ==
    (pc = "checked" /\ reason = "conflict" /\ Learned # {}) =>
        assignments # pre

\* C12 (branching precondition): whenever the main loop goes on to decide,
\* some formula variable has no trail entry, and a decision adds an entry
\* for a variable that had none, leaving the other entries as they were.
C12_Branching ==
    [][/\ (pc' = "loop" /\ ~all_variables_assigned(variables', assignments'))
              => \E v \in variables' : v \notin DOMAIN assignments'
       /\ (pc = "loop" /\ pc' = "propagate") =>
              /\ \E v \in variables : v \notin DOMAIN assignments
              /\ \E v \in variables \ DOMAIN assignments :
                     /\ DOMAIN assignments' = DOMAIN assignments \cup {v}
                     /\ ~has_value(assignments'[v].antecedent)
              /\ \A v \in DOMAIN assignments :
                     assignments'[v] = assignments[v]]_vars

C12_Witness ==
    /\ pc = "propagate"
    /\ origin = "decide"
    /\ before # EmptyTrail
    /\ Cardinality(DOMAIN assignments) = Cardinality(DOMAIN before) + 1

\* C13 (conflict step): conflict_analysis gives -1 iff the level d is 0 and
\* otherwise d - 1 with the conflict clause itself; for d >= 1 the driver
\* appends that one clause, removes exactly the entries above d - 1, sets
\* the level to d - 1 and propagates before any new decision.
C13_ConflictStep ==
    [][/\ (pc = "checked" /\ reason = "conflict" /\ pc' # pc) =>
              /\ (b' = -1) <=> (dl = 0)
              /\ dl = 0 => (pc' = "unsat" /\ clauses' = clauses)
              /\ dl >= 1 =>
                     /\ b' = dl - 1
                     /\ clauses' = clauses \o <<opt_value(clause)>>
                     /\ pc' = "backtrack"
              /\ assignments' = assignments
              /\ dl' = dl
       /\ (pc = "backtrack" /\ pc' # pc) =>
              /\ DOMAIN assignments' =
                     {v \in DOMAIN assignments : ~(assignments[v].dl > b)}
              /\ \A v \in DOMAIN assignments' :
                     assignments'[v] = assignments[v]
              /\ clauses' = clauses
              /\ b' = b
              /\ pc' = "set_dl"
       /\ (pc = "set_dl" /\ pc' # pc) =>
              /\ dl' = b
              /\ assignments' = assignments
              /\ clauses' = clauses
              /\ pc' = "propagate"]_vars

C13_Witness ==
    /\ pc = "propagate"
    /\ origin = "backtrack"
    /\ dl = b
    /\ b >= 1
    /\ Len(clauses) = Len(original) + 1
    /\ \E v \in DOMAIN pre : v \notin DOMAIN assignments
    /\ assignments # EmptyTrail

\* C14 (initial conflict): when the first propagation, run at level 0 on the
\* empty trail, reports a conflict, the next step returns Unsat: no decision
\* was made (every entry is forced, at level 0), the level is still 0 and
\* the formula is the input formula.
C14_InitialConflict ==
    [][(pc = "initial_check" /\ reason = "conflict") =>
           /\ pc' = "unsat"
           /\ origin' = "initial"
           /\ dl' = 0
           /\ clauses' = original
           /\ \A v \in DOMAIN assignments' :
                  /\ has_value(assignments'[v].antecedent)
                  /\ assignments'[v].dl = 0]_vars

C14_Witness ==
    /\ pc = "unsat"
    /\ origin = "initial"
    /\ dl = 0
    /\ clauses = original
    /\ has_value(clause)
    /\ Len(opt_value(clause)) = 1
    /\ assignments # EmptyTrail

\* C15 (empty clause): under every trail a clause with zero literals is not
\* unit, because size() - 1 wraps to the largest unsigned value, and is a
\* conflict; a formula that contains one is answered Unsat by the initial
\* propagation.
C15_EmptyClause ==
    /\ LET s == scan_literals(assignments, <<>>, 1, 0, nullopt)
       IN  /\ SizeT(Len(<<>>) - 1) = SizeModulus - 1
           /\ ~is_unit(s.false_count, Len(<<>>), s.unassigned_literal)
           /\ is_conflict(s.false_count, Len(<<>>))
    /\ unit_propagation(Append(clauses, <<>>), assignments, dl).reason
           = "conflict"
    /\ (\E i \in 1..Len(original) : original[i] = <<>>) =>
           /\ pc \in {"start", "initial_check", "unsat"}
           /\ pc # "start" => reason = "conflict"
           /\ dl = 0
           /\ clauses = original

C15_Witness ==
    /\ pc = "unsat"
    /\ \E i \in 1..Len(original) : original[i] = <<>>
    /\ Len(original) >= 2
    /\ dl = 0

LevelStructure(A, level) ==
    /\ \A v \in DOMAIN A :
           /\ A[v].dl \in 0..level
           /\ A[v].dl = 0 => has_value(A[v].antecedent)
    /\ \A k \in 1..level :
           Cardinality({v \in DOMAIN A :
                            A[v].dl = k /\ ~has_value(A[v].antecedent)}) = 1

AtCallOrLoopTest(p) == p \in {"start", "propagate", "loop"}

\* C16 (decision-level structure): at every call of unit_propagation and at
\* every test of the main-loop condition the levels of the trail lie in
\* 0..dl, the entries of level 0 are forced, and each level 1..dl has exactly
\* one entry without antecedent; an entry is created without antecedent
\* exactly by a branching decision.
C16_LevelStructure ==
    [][/\ AtCallOrLoopTest(pc) => LevelStructure(assignments, dl)
       /\ AtCallOrLoopTest(pc') => LevelStructure(assignments', dl')
       /\ \A v \in DOMAIN assignments' \ DOMAIN assignments :
              ~has_value(assignments'[v].antecedent)
                  <=> (pc = "loop" /\ pc' = "propagate")]_vars

C16_Witness ==
    /\ pc = "propagate"
    /\ origin = "backtrack"
    /\ dl >= 1
    /\ \E v \in DOMAIN assignments :
           assignments[v].dl = dl /\ ~has_value(assignments[v].antecedent)
    /\ \E v \in DOMAIN pre : pre[v].dl = dl + 1

\* C17 (antecedent validity): in every state each entry with an antecedent c
\* has c among the clauses, a literal of c on its variable that is true, and
\* all other literals of c assigned, false, and of a level not above its own.
C17_Antecedents ==
    \A v \in DOMAIN assignments :
        has_value(assignments[v].antecedent) =>
            LET c == opt_value(assignments[v].antecedent)
            IN  /\ \E i \in 1..Len(clauses) : clauses[i] = c
                /\ \E j \in 1..Len(c) :
                       /\ c[j].variable = v
                       /\ value(assignments, c[j])
                /\ \A j \in 1..Len(c) :
                       c[j].variable # v =>
                           /\ c[j].variable \in DOMAIN assignments
                           /\ ~value(assignments, c[j])
                           /\ assignments[c[j].variable].dl
                                  <= assignments[v].dl

C17_Witness ==
    /\ pc = "propagate"
    /\ origin = "backtrack"
    /\ \E v \in DOMAIN pre :
           /\ has_value(pre[v].antecedent)
           /\ Len(opt_value(pre[v].antecedent)) >= 2
           /\ v \notin DOMAIN assignments
           /\ \A j \in 1..Len(opt_value(pre[v].antecedent)) :
                  opt_value(pre[v].antecedent)[j].variable
                      \notin DOMAIN assignments

\* C18 (Unsat only from the initial propagation): a conflict handed to
\* conflict_analysis is at level >= 1, its result is never negative, and
\* every Unsat verdict is reached with no decision made and nothing learned.
C18_UnsatOnlyInitial ==
    /\ (pc = "checked" /\ reason = "conflict") => dl >= 1
    /\ b >= 0
    /\ pc = "unsat" => (origin = "initial" /\ dl = 0 /\ clauses = original)

C18_Witness ==
    /\ pc = "backtrack"
    /\ dl = 1
    /\ b = 0
    /\ Len(clauses) = Len(original) + 2

\* C19 (post-backtrack propagation): the propagation that follows a backtrack
\* to level b reports "unresolved" and adds no entry; the trail is then the
\* one that existed before the undone decision.
C19_PostBacktrack ==
    (pc = "checked" /\ origin = "backtrack") =>
        /\ reason = "unresolved"
        /\ assignments = backtrack(pre, b)
        /\ assignments = before
        /\ dl = b

C19_Witness ==
    /\ pc = "checked"
    /\ origin = "backtrack"
    /\ assignments # EmptyTrail
    /\ DOMAIN assignments # DOMAIN pre

\* C20 (no overwrite): no step replaces the entry of a variable that keeps
\* its entry, and every call of assign made by unit_propagation adds one
\* variable to the trail.
C20_NoOverwrite ==
    [][/\ \A v \in DOMAIN assignments \cap DOMAIN assignments' :
              assignments'[v] = assignments[v]
       /\ (pc \in {"start", "propagate"} /\ pc' # pc) =>
              LET r == unit_propagation(clauses, assignments, dl)
              IN  Cardinality(DOMAIN assignments') =
                      Cardinality(DOMAIN assignments) + r.assign_calls
       /\ (pc = "loop" /\ pc' = "propagate") =>
              Cardinality(DOMAIN assignments') =
                  Cardinality(DOMAIN assignments) + 1]_vars

C20_Witness ==
    /\ pc = "checked"
    /\ reason = "conflict"
    /\ dl >= 1
    /\ \E v \in DOMAIN assignments :
           /\ has_value(assignments[v].antecedent)
           /\ assignments[v].dl = dl
           /\ v \notin DOMAIN before

====
